---- MODULE Spec2Model ----
(***************************************************************************)
(* lark-requests: the execution pipeline (Client::execute), the two        *)
(* response envelopes (BodyResponse, FlattenResponse), the error mapping   *)
(* (LarkError), path substitution and field serialization.                 *)
(*                                                                         *)
(* Option<T> is a sequence of length at most one: None is <<>> and         *)
(* Some(x) is <<x>>.  A Result whose error carries no data is modelled     *)
(* the same way (Err is <<>>, Ok(x) is <<x>>).                             *)
(***************************************************************************)
EXTENDS Integers, Sequences, FiniteSets, TLC

None == <<>>
Some(x) == <<x>>

(***************************************************************************)
(* JSON values of a response.  An object carries its members in wire       *)
(* order (duplicates included); an array is the empty array.               *)
(***************************************************************************)
JNum(n) == [t |-> "num", n |-> n, s |-> "", o |-> <<>>]
JStr(s) == [t |-> "str", n |-> 0, s |-> s, o |-> <<>>]
JNull == [t |-> "null", n |-> 0, s |-> "", o |-> <<>>]
JArr == [t |-> "arr", n |-> 0, s |-> "", o |-> <<>>]
JObj(members) == [t |-> "obj", n |-> 0, s |-> "", o |-> members]
Field(k, v) == [k |-> k, v |-> v]

\* Bounds of the model.
MaxFields == 4

\* The payload of the repository's tests: TenantAccessToken.
TokenObj == JObj(<<Field("tenant_access_token", JStr("xxx")), Field("expire", JNum(7200))>>)
WrongObj == JObj(<<Field("tenant_access_token", JNum(1)), Field("expire", JNum(7200))>>)
EmptyObj == JObj(<<>>)

\* The fields a nested envelope's bytes are drawn from.
BodyWireFields ==
    {Field("code", v) : v \in {JNum(0), JNum(100000), JStr("x")}}
    \cup {Field("msg", v) : v \in {JStr("ok"), JStr("invalid"), JNull}}
    \cup {Field("data", v) : v \in {TokenObj, EmptyObj, WrongObj, JArr, JNum(1), JNull}}
    \cup {Field("extra", JNull)}

\* The fields a flattened envelope's bytes are drawn from.
FlattenWireFields ==
    {Field("code", v) : v \in {JNum(0), JNum(100000), JStr("x")}}
    \cup {Field("msg", v) : v \in {JStr("ok")}}
    \cup {Field("tenant_access_token", v) : v \in {JStr("xxx"), JNum(1)}}
    \cup {Field("expire", v) : v \in {JNum(7200), JStr("x")}}
    \cup {Field("data", EmptyObj)}

SeqsUpTo(S, n) == UNION {[1..k -> S] : k \in 0..n}

(***************************************************************************)
(* Typed decoding (serde).                                                 *)
(***************************************************************************)
DecodeU64(v) == IF v.t = "num" THEN Some(v.n) ELSE None
DecodeString(v) == IF v.t = "str" THEN Some(v.s) ELSE None

\* #[derive(Deserialize)] struct TenantAccessToken over a map: each field
\* exactly once and well-typed, other keys ignored.
DecodeT(members) ==
    LET toks == SelectSeq(members, LAMBDA f : f.k = "tenant_access_token")
        exps == SelectSeq(members, LAMBDA f : f.k = "expire")
    IN  IF /\ Len(toks) = 1 /\ DecodeString(toks[1].v) # None
           /\ Len(exps) = 1 /\ DecodeU64(exps[1].v) # None
        THEN Some([tenant_access_token |-> DecodeString(toks[1].v)[1],
                   expire |-> DecodeU64(exps[1].v)[1]])
        ELSE None

\* next_value::<Option<T>>(): null is Ok(None); anything else is decoded as T.
DecodeOptionT(v) ==
    IF v.t = "null" THEN Some(None)
    ELSE IF v.t = "obj" /\ DecodeT(v.o) # None THEN Some(DecodeT(v.o))
    ELSE None

(***************************************************************************)
(* LarkError and the results of execute.                                   *)
(***************************************************************************)
LarkError(c, m) == [ok |-> FALSE, code |-> c, message |-> m, payload |-> None]
OkResult(p) == [ok |-> TRUE, code |-> 0, message |-> "", payload |-> Some(p)]

\* reqwest::Error as seen by from_req_west.
ReqwestError(c, t, s, st) ==
    [is_connect |-> c, is_timeout |-> t, is_status |-> s, status |-> st, text |-> "E"]
\* Failures of send() and bytes(): never of the status class (execute does
\* not call error_for_status).
SendErrors ==
    {ReqwestError(TRUE, FALSE, FALSE, None), ReqwestError(TRUE, TRUE, FALSE, None),
     ReqwestError(FALSE, TRUE, FALSE, None), ReqwestError(FALSE, FALSE, FALSE, None)}
StatusErrors ==
    {ReqwestError(FALSE, FALSE, TRUE, Some(404)), ReqwestError(FALSE, FALSE, TRUE, Some(503)),
     ReqwestError(FALSE, FALSE, TRUE, None)}

INTERNAL_SERVER_ERROR == 500

\* Mutant: the status attached to a status-class failure is dropped.
from_req_west_without_status(err) ==
    IF err.is_connect THEN LarkError(500, "connect error: " \o err.text)
    ELSE IF err.is_timeout THEN LarkError(500, "timeout error: " \o err.text)
    ELSE IF err.is_status THEN LarkError(INTERNAL_SERVER_ERROR, "status error: " \o err.text)
    ELSE LarkError(500, "unknown error: " \o err.text)

from_req_west(err) ==
    IF err.is_connect THEN LarkError(500, "connect error: " \o err.text)
    ELSE IF err.is_timeout THEN LarkError(500, "timeout error: " \o err.text)
    ELSE IF err.is_status
         THEN LET status == IF err.status # None THEN err.status[1] ELSE INTERNAL_SERVER_ERROR
              IN  LarkError(status, "status error: " \o err.text)
    ELSE LarkError(500, "unknown error: " \o err.text)

from_json_serde(detail) == LarkError(500, "json serde error: " \o detail)

Display(e) == "[" \o ToString(e.code) \o "]: " \o e.message

from_response(response) == LarkError(response.code, response.message)

is_success(response) == response.code = 0

(***************************************************************************)
(* Field values of the supported types and RequestSerialize.               *)
(***************************************************************************)
Scalar(s) == [kind |-> "scalar", text |-> s, items |-> <<>>]
OptNone == [kind |-> "none", text |-> "", items |-> <<>>]
OptSome(s) == [kind |-> "some", text |-> s, items |-> <<>>]
VecOf(items) == [kind |-> "vec", text |-> "", items |-> items]

(***************************************************************************)
(* State of one Client::execute call.                                      *)
(***************************************************************************)
VARIABLES
    pc,       \* position in execute / in the decoder
    shape,    \* R::Target: "body" (BodyResponse<T>) or "flatten" (FlattenResponse<T>)
    url,      \* outcome of Url::parse: "none", "ok", "err"
    sends,    \* number of times request.send() was called
    terr,     \* Option: the reqwest::Error converted to a LarkError
    wire,     \* Option: the bytes the transport returned
    pos,      \* number of wire fields the decoder has consumed
    code,     \* decoder local: Option<u64>
    message,  \* decoder local: Option<String>
    data,     \* decoder local: Option<Option<T>>
    collect,  \* decoder local of the flattened envelope: the buffered fields
    resp,     \* Option: the decoded envelope
    result,   \* Option: what execute returned
    \* one call of replace_path_params
    path,     \* the address, a sequence of characters
    params,   \* the HashMap of path parameters: identifier -> value
    replaced, \* Option: the returned address
    \* one call of RequestSerialize::serialize
    value,    \* the field value
    serialized, \* Option: how the call ended
    \* one expansion of #[derive(Request)]
    dpc,      \* position in request::derive
    cattrs,   \* the attributes of the type, by name
    cargs,    \* the arguments of its first `request` attribute, as declared
    struct,   \* the fields of the type, in declaration order
    pool,     \* the Vec<&Expr> of arguments not yet consumed
    cvar,     \* container.rs: the RequestVariable being built
    emitted,  \* Option: what the emitted method/address/response/body return
    fidx,     \* fields.rs: number of fields taken from the struct
    fvar,     \* fields.rs: the FieldVariable being built
    headers,  \* fields.rs: the header descriptors so far
    paths,    \* fields.rs: the path descriptors so far
    queries,  \* fields.rs: the query descriptors so far
    dout,     \* Option: how the expansion ended
    \* one call of an emitted path_params / query_params / headers
    gfields,  \* the FieldsVariable the accessor was emitted from, with the field values
    gout      \* Option: how the call ended

execVars == <<pc, shape, url, sends, terr, wire, pos, code, message, data, collect, resp, result>>
pathVars == <<path, params, replaced>>
serVars == <<value, serialized>>
deriveVars == <<dpc, cattrs, cargs, struct, pool, cvar, emitted, fidx, fvar, headers, paths, queries, dout>>
glueVars == <<gfields, gout>>
macroVars == <<deriveVars, glueVars>>
vars == <<execVars, pathVars, serVars, macroVars>>

decoderVars == <<pos, code, message, data, collect, resp>>
utilVars == <<pathVars, serVars, macroVars>>

ExecIdle ==
    /\ pc = "start"
    /\ url = "none"
    /\ sends = 0
    /\ terr = None
    /\ wire = None
    /\ pos = 0
    /\ code = None
    /\ message = None
    /\ data = None
    /\ collect = <<>>
    /\ resp = None
    /\ result = None

PathIdle ==
    /\ path = <<>>
    /\ params = <<>>
    /\ replaced = None

SerIdle ==
    /\ value = Scalar("")
    /\ serialized = None

\* container.rs 43-50: #[derive(Default)] of RequestVariable.
RequestVariableDefault ==
    [method |-> None, address |-> None, response |-> None, flatten |-> FALSE, body |-> None]

\* fields.rs 51-55: FieldVariable::new, before a field is taken: no field.
NoFieldVariable ==
    [field |-> "", mode |-> None, rename |-> None, with |-> None, serialize_with |-> None]

DeriveIdle ==
    /\ dpc = "idle"
    /\ cattrs = <<>>
    /\ cargs = <<>>
    /\ struct = <<>>
    /\ pool = <<>>
    /\ cvar = RequestVariableDefault
    /\ emitted = None
    /\ fidx = 0
    /\ fvar = NoFieldVariable
    /\ headers = <<>>
    /\ paths = <<>>
    /\ queries = <<>>
    /\ dout = None

GlueIdle ==
    /\ gfields = <<>>
    /\ gout = None

MacroIdle == DeriveIdle /\ GlueIdle

Init ==
    /\ ExecIdle
    /\ shape \in {"body", "flatten"}
    /\ PathIdle
    /\ SerIdle
    /\ MacroIdle

Return(r) ==
    /\ result' = Some(r)
    /\ pc' = "done"

\* Mutant: the failure of Url::parse is not propagated.
AfterUrlParseIgnored(ok) == "built"

\* blocking.rs 63: where execute goes after Url::parse.
AfterUrlParse(ok) == IF ok THEN "built" ELSE "done"

\* blocking.rs 56-82: address, path substitution, Url::parse, query, headers, body.
BuildRequest ==
    /\ pc = "start"
    /\ \E ok \in BOOLEAN :
        /\ url' = IF ok THEN "ok" ELSE "err"
        /\ pc' = AfterUrlParse(ok)
        /\ result' = IF ok THEN None ELSE Some(LarkError(502, "url parse error"))
    /\ UNCHANGED <<shape, sends, terr, wire>>
    /\ UNCHANGED decoderVars
    /\ UNCHANGED utilVars

\* blocking.rs 84: request.send()?
Send ==
    /\ pc = "built"
    /\ sends' = sends + 1
    /\ \/ /\ pc' = "sent"
          /\ UNCHANGED <<terr, result>>
       \/ \E e \in SendErrors :
            /\ terr' = Some(e)
            /\ Return(from_req_west(e))
    /\ UNCHANGED <<shape, url, wire>>
    /\ UNCHANGED decoderVars
    /\ UNCHANGED utilVars

WiresOf(sh) ==
    IF sh = "body" THEN SeqsUpTo(BodyWireFields, MaxFields)
    ELSE SeqsUpTo(FlattenWireFields, MaxFields)

\* blocking.rs 85: resp.bytes()?
ReadBytes ==
    /\ pc = "sent"
    /\ \/ \E wf \in BOOLEAN, fs \in WiresOf(shape) :
            /\ wf \/ fs = <<>>
            /\ wire' = Some([wellformed |-> wf, fields |-> fs])
            /\ pc' = "received"
            /\ UNCHANGED <<terr, result>>
       \/ \E e \in SendErrors :
            /\ terr' = Some(e)
            /\ Return(from_req_west(e))
            /\ UNCHANGED wire
    /\ UNCHANGED <<shape, url, sends>>
    /\ UNCHANGED decoderVars
    /\ UNCHANGED utilVars

\* blocking.rs 87: serde_json::from_slice starts; bytes that are no JSON
\* object fail here.
StartDecode ==
    /\ pc = "received"
    /\ IF wire[1].wellformed
       THEN pc' = "decoding" /\ UNCHANGED result
       ELSE Return(from_json_serde("syntax"))
    /\ UNCHANGED <<shape, url, sends, terr, wire>>
    /\ UNCHANGED decoderVars
    /\ UNCHANGED utilVars

(***************************************************************************)
(* BodyResponse<T>: the hand-written visitor, one action per match arm of  *)
(* one iteration of the `while let Some(key)` loop.                        *)
(***************************************************************************)
More == pos < Len(wire[1].fields)
CurField == wire[1].fields[pos + 1]

InBodyLoop(k) ==
    /\ pc = "decoding"
    /\ shape = "body"
    /\ More
    /\ CurField.k = k

\* Mutant: `data` is always decoded as the payload type (the derived behaviour).
DataIsTypedAlways(c) == TRUE
\* Mutant: `data` is decoded as the payload type unless a non-zero code was read.
DataIsTypedUnlessError(c) == c = None \/ c = Some(0)

\* schema.rs 126: the `data` value is decoded as Option<T> only in this case.
DataIsTyped(c) == c = Some(0)

\* schema.rs 141: data.flatten()
OptionFlatten(d) == IF d = None THEN None ELSE d[1]

\* schema.rs 119-121
VisitCode ==
    /\ InBodyLoop("code")
    /\ LET r == DecodeU64(CurField.v)
       IN  IF r = None
           THEN Return(from_json_serde("invalid type")) /\ UNCHANGED <<pos, code>>
           ELSE code' = Some(r[1]) /\ pos' = pos + 1 /\ UNCHANGED <<pc, result>>
    /\ UNCHANGED <<shape, url, sends, terr, wire, message, data, collect, resp>>
    /\ UNCHANGED utilVars

\* schema.rs 122-124
VisitMsg ==
    /\ InBodyLoop("msg")
    /\ LET r == DecodeString(CurField.v)
       IN  IF r = None
           THEN Return(from_json_serde("invalid type")) /\ UNCHANGED <<pos, message>>
           ELSE message' = Some(r[1]) /\ pos' = pos + 1 /\ UNCHANGED <<pc, result>>
    /\ UNCHANGED <<shape, url, sends, terr, wire, code, data, collect, resp>>
    /\ UNCHANGED utilVars

\* schema.rs 125-133
VisitData ==
    /\ InBodyLoop("data")
    /\ IF DataIsTyped(code)
       THEN LET r == DecodeOptionT(CurField.v)
            IN  IF r = None
                THEN Return(from_json_serde("invalid type")) /\ UNCHANGED <<pos, data>>
                ELSE data' = Some(r[1]) /\ pos' = pos + 1 /\ UNCHANGED <<pc, result>>
       ELSE \* IgnoredAny accepts every value
            pos' = pos + 1 /\ UNCHANGED <<pc, result, data>>
    /\ UNCHANGED <<shape, url, sends, terr, wire, code, message, collect, resp>>
    /\ UNCHANGED utilVars

\* Mutant: a key outside the envelope is skipped with its value.
VisitUnknownIgnored ==
    /\ pc = "decoding"
    /\ shape = "body"
    /\ More
    /\ CurField.k \notin {"code", "msg", "data"}
    /\ pos' = pos + 1
    /\ UNCHANGED <<pc, result, shape, url, sends, terr, wire, code, message, data, collect, resp>>
    /\ UNCHANGED utilVars

\* schema.rs 134-136
VisitUnknown ==
    /\ pc = "decoding"
    /\ shape = "body"
    /\ More
    /\ CurField.k \notin {"code", "msg", "data"}
    /\ Return(from_json_serde("unknown field"))
    /\ UNCHANGED <<shape, url, sends, terr, wire>>
    /\ UNCHANGED decoderVars
    /\ UNCHANGED utilVars

\* Mutant: a missing `msg` defaults to the empty string.
BodyFinishDefaultMessage(c, m, d) ==
    IF c = None THEN None
    ELSE Some([code |-> c[1], message |-> (IF m = None THEN "" ELSE m[1]),
               data |-> OptionFlatten(d)])

\* schema.rs 139-141: what visit_map returns once the keys are exhausted.
BodyFinish(c, m, d) ==
    IF c = None \/ m = None THEN None
    ELSE Some([code |-> c[1], message |-> m[1], data |-> OptionFlatten(d)])

VisitEnd ==
    /\ pc = "decoding"
    /\ shape = "body"
    /\ ~More
    /\ LET r == BodyFinish(code, message, data)
       IN  IF r = None
           THEN Return(from_json_serde("missing field")) /\ UNCHANGED resp
           ELSE resp' = r /\ pc' = "decoded" /\ UNCHANGED result
    /\ UNCHANGED <<shape, url, sends, terr, wire, pos, code, message, data, collect>>
    /\ UNCHANGED utilVars

(***************************************************************************)
(* FlattenResponse<T>: #[derive(Deserialize)] with #[serde(flatten)] on    *)
(* data: Option<T>.  `code` and `msg` are ordinary fields (a second        *)
(* occurrence is a duplicate-field error), every other key is buffered,    *)
(* and the buffer is decoded as T: Some(T) when that succeeds, else None.  *)
(***************************************************************************)
FlatVisitField ==
    /\ pc = "decoding"
    /\ shape = "flatten"
    /\ More
    /\ LET f == CurField
       IN  CASE f.k = "code" ->
                  IF code # None \/ DecodeU64(f.v) = None
                  THEN Return(from_json_serde("invalid code")) /\ UNCHANGED <<pos, code, message, collect>>
                  ELSE code' = DecodeU64(f.v) /\ pos' = pos + 1 /\ UNCHANGED <<pc, result, message, collect>>
             [] f.k = "msg" ->
                  IF message # None \/ DecodeString(f.v) = None
                  THEN Return(from_json_serde("invalid msg")) /\ UNCHANGED <<pos, code, message, collect>>
                  ELSE message' = DecodeString(f.v) /\ pos' = pos + 1 /\ UNCHANGED <<pc, result, code, collect>>
             [] OTHER ->
                  collect' = Append(collect, f) /\ pos' = pos + 1 /\ UNCHANGED <<pc, result, code, message>>
    /\ UNCHANGED <<shape, url, sends, terr, wire, data, resp>>
    /\ UNCHANGED utilVars

\* schema.rs 162-171: the derived visitor's end, with the flattened Option<T>.
FlattenFinish(c, m, buffered) ==
    IF c = None \/ m = None THEN None
    ELSE Some([code |-> c[1], message |-> m[1], data |-> DecodeT(buffered)])

FlatVisitEnd ==
    /\ pc = "decoding"
    /\ shape = "flatten"
    /\ ~More
    /\ LET r == FlattenFinish(code, message, collect)
       IN  IF r = None
           THEN Return(from_json_serde("missing field")) /\ UNCHANGED resp
           ELSE resp' = r /\ pc' = "decoded" /\ UNCHANGED result
    /\ UNCHANGED <<shape, url, sends, terr, wire, pos, code, message, data, collect>>
    /\ UNCHANGED utilVars

\* Mutant: the payload is returned whenever it is present.
ResolutionDataFirst(r) ==
    IF r.data # None THEN OkResult(r.data[1])
    ELSE IF ~is_success(r) THEN from_response(r)
    ELSE LarkError(502, "response data is null")

\* blocking.rs 88-93
Resolution(r) ==
    IF ~is_success(r) THEN from_response(r)
    ELSE IF r.data = None THEN LarkError(502, "response data is null")
    ELSE OkResult(r.data[1])

Resolve ==
    /\ pc = "decoded"
    /\ Return(Resolution(resp[1]))
    /\ UNCHANGED <<shape, url, sends, terr, wire>>
    /\ UNCHANGED decoderVars
    /\ UNCHANGED utilVars

\* errors.rs 82-86: impl From<reqwest::Error> for LarkError, used on an
\* error of any class.
FromReqwest ==
    /\ pc = "start"
    /\ \E e \in SendErrors \cup StatusErrors :
        /\ terr' = Some(e)
        /\ Return(from_req_west(e))
    /\ UNCHANGED <<shape, url, sends, wire>>
    /\ UNCHANGED decoderVars
    /\ UNCHANGED utilVars

Next ==
    \/ BuildRequest \/ Send \/ ReadBytes \/ StartDecode
    \/ VisitCode \/ VisitMsg \/ VisitData \/ VisitUnknown \/ VisitEnd
    \/ FlatVisitField \/ FlatVisitEnd
    \/ Resolve
    \/ FromReqwest

Spec == Init /\ [][Next]_vars

(***************************************************************************)
(* utils.rs: replace_path_params, Regex ":(\w+)" with replace_all.         *)
(***************************************************************************)
MaxPathLen == 7

PathChars == {":", "/", "i", "2"}
\* \w of the regex: letters, digits and underscore.
IsWord(c) == c \in {"i", "2"}

ParamMaps ==
    { <<>>,
      [k \in {<<"i">>} |-> <<"1">>],
      [k \in {<<"i">>, <<"i", "2">>} |-> IF k = <<"i">> THEN <<"1">> ELSE <<"2">>],
      [k \in {<<"i", "2">>} |-> <<":", "i">>] }

\* The greedy \w+: the index of the last word character of the run that
\* contains index i.
RECURSIVE MatchEnd(_, _)
MatchEnd(p, i) ==
    IF i < Len(p) /\ IsWord(p[i + 1]) THEN MatchEnd(p, i + 1) ELSE i

\* replace_all: leftmost non-overlapping matches from index `at` on; the
\* text between matches is copied, replacements are not scanned again.
RECURSIVE ReplaceFrom(_, _, _)
ReplaceFrom(p, ps, at) ==
    IF at > Len(p) THEN <<>>
    ELSE IF p[at] = ":" /\ at < Len(p) /\ IsWord(p[at + 1])
    THEN LET e == MatchEnd(p, at + 1)
             name == SubSeq(p, at + 1, e)
             whole == SubSeq(p, at, e)
         IN  (IF name \in DOMAIN ps THEN ps[name] ELSE whole) \o ReplaceFrom(p, ps, e + 1)
    ELSE <<p[at]>> \o ReplaceFrom(p, ps, at + 1)

\* Mutant: Regex::replace instead of replace_all (the first match only).
ReplaceFirstOnly(p, ps) ==
    LET starts == {i \in 1..Len(p) : p[i] = ":" /\ i < Len(p) /\ IsWord(p[i + 1])}
    IN  IF starts = {} THEN p
        ELSE LET at == CHOOSE i \in starts : \A j \in starts : i <= j
                 e == MatchEnd(p, at + 1)
                 name == SubSeq(p, at + 1, e)
             IN  SubSeq(p, 1, at - 1)
                 \o (IF name \in DOMAIN ps THEN ps[name] ELSE SubSeq(p, at, e))
                 \o SubSeq(p, e + 1, Len(p))

replace_path_params(p, ps) == ReplaceFrom(p, ps, 1)

InitPath ==
    /\ ExecIdle
    /\ shape = "body"
    /\ SerIdle
    /\ MacroIdle
    /\ path \in SeqsUpTo(PathChars, MaxPathLen)
    /\ params \in ParamMaps
    /\ replaced = None

ReplacePathParams ==
    /\ replaced = None
    /\ replaced' = Some(replace_path_params(path, params))
    /\ UNCHANGED <<path, params>>
    /\ UNCHANGED <<execVars, serVars, macroVars>>

NextPath == ReplacePathParams

SpecPath == InitPath /\ [][NextPath]_vars

(***************************************************************************)
(* serialize.rs: RequestSerialize.  The outcome of a call is a record:     *)
(* panicked, or the returned Option<String>.                               *)
(***************************************************************************)
MaxVecLen == 4

Returned(o) == [panic |-> FALSE, out |-> o]
Panicked == [panic |-> TRUE, out |-> None]

\* serialize.rs 29-49: the scalar impls and Option<T>.
SerializeItem(v) ==
    IF v.kind = "none" THEN None ELSE Some(v.text)

\* serialize.rs 51-62: Vec<T>, item i of `items` onwards appended to s.
RECURSIVE SerializeVecFrom(_, _, _)
SerializeVecFrom(items, i, s) ==
    IF i > Len(items) THEN Returned(Some(s))
    ELSE LET sep == IF i > 1 THEN "," ELSE ""
             r == SerializeItem(items[i])
         IN  IF r = None THEN Panicked  \* unwrap() on None
             ELSE SerializeVecFrom(items, i + 1, s \o sep \o r[1])

serialize(v) ==
    IF v.kind = "vec" THEN SerializeVecFrom(v.items, 1, "")
    ELSE Returned(SerializeItem(v))

FieldItems == {Scalar("a"), Scalar("")} \cup {OptNone, OptSome("a")}
\* Vec<T> is homogeneous: Vec<String> or Vec<Option<String>>.
FieldValues ==
    FieldItems
    \cup {VecOf(items) : items \in SeqsUpTo({Scalar("a"), Scalar("")}, MaxVecLen)}
    \cup {VecOf(items) : items \in SeqsUpTo({OptNone, OptSome("a")}, MaxVecLen)}

InitSer ==
    /\ ExecIdle
    /\ shape = "body"
    /\ PathIdle
    /\ MacroIdle
    /\ value \in FieldValues
    /\ serialized = None

Serialize ==
    /\ serialized = None
    /\ serialized' = Some(serialize(value))
    /\ UNCHANGED value
    /\ UNCHANGED <<execVars, pathVars, macroVars>>

NextSer == Serialize

SpecSer == InitSer /\ [][NextSer]_vars

(***************************************************************************)
(* lark-requests-macros: the arguments of a `request` attribute.  An       *)
(* argument is a syn::Expr: a path (one identifier, or several segments),  *)
(* a literal, or an assignment `id = right`; `lit` is the kind of the      *)
(* literal ("str", "bool", "int"), or "expr" when the right-hand side of   *)
(* an assignment is not a literal.                                         *)
(***************************************************************************)
ExprPath(id) == [kind |-> "path", id |-> id, single |-> TRUE, lit |-> "", sv |-> "", bv |-> FALSE]
ExprSegments(id) == [kind |-> "path", id |-> id, single |-> FALSE, lit |-> "", sv |-> "", bv |-> FALSE]
ExprStr(s) == [kind |-> "lit", id |-> "", single |-> FALSE, lit |-> "str", sv |-> s, bv |-> FALSE]
ExprInt(s) == [kind |-> "lit", id |-> "", single |-> FALSE, lit |-> "int", sv |-> s, bv |-> FALSE]
AssignStr(id, s) == [kind |-> "assign", id |-> id, single |-> TRUE, lit |-> "str", sv |-> s, bv |-> FALSE]
AssignBool(id, b) == [kind |-> "assign", id |-> id, single |-> TRUE, lit |-> "bool", sv |-> "", bv |-> b]
AssignInt(id, s) == [kind |-> "assign", id |-> id, single |-> TRUE, lit |-> "int", sv |-> s, bv |-> FALSE]

RemoveLast(q, i) == SubSeq(q, 1, Len(q) - 1)

\* Vec::remove(index) and iter().rev().collect().
Remove(q, i) == SubSeq(q, 1, i - 1) \o SubSeq(q, i + 1, Len(q))
Reverse(q) == [i \in 1..Len(q) |-> q[Len(q) + 1 - i]]

\* The index at which a `for (idx, expr) in args.iter().enumerate()` loop
\* returns, given the indices whose argument takes a returning arm; 0 when it
\* runs to the end.
FirstIndex(returning) ==
    IF returning = {} THEN 0
    ELSE CHOOSE i \in returning : \A j \in returning : i <= j

is_ident(e, ident) == e.kind = "path" /\ e.single /\ e.id = ident
AssignTo(e, ident) == e.kind = "assign" /\ e.single /\ e.id = ident

\* What a matcher returns: Ok(None), Ok(Some((b, s, idx))) or Err at args[idx].
MatchNone == [tag |-> "none", b |-> FALSE, s |-> None, idx |-> 0]
MatchSome(b, s, i) == [tag |-> "some", b |-> b, s |-> s, idx |-> i]
MatchErr(i) == [tag |-> "err", b |-> FALSE, s |-> None, idx |-> i]

parse_bool_var_at_head(args, ident) ==
    IF args = <<>> \/ ~(is_ident(args[1], ident) \/ AssignTo(args[1], ident)) THEN MatchNone
    ELSE IF args[1].kind = "path" THEN MatchSome(TRUE, None, 1)
    ELSE IF args[1].lit # "bool" THEN MatchErr(1)
    ELSE MatchSome(args[1].bv, None, 1)

parse_bool_var(args, ident) ==
    LET i == FirstIndex({j \in DOMAIN args : is_ident(args[j], ident) \/ AssignTo(args[j], ident)})
    IN  IF i = 0 THEN MatchNone
        ELSE IF args[i].kind = "path" THEN MatchSome(TRUE, None, i)
        ELSE IF args[i].lit # "bool" THEN MatchErr(i)
        ELSE MatchSome(args[i].bv, None, i)

parse_string_var_or_bare(args, ident) ==
    LET i == FirstIndex({j \in DOMAIN args : is_ident(args[j], ident) \/ AssignTo(args[j], ident)})
    IN  IF i = 0 THEN MatchNone
        ELSE IF args[i].kind = "path" THEN MatchSome(TRUE, Some(""), i)
        ELSE IF args[i].lit # "str" THEN MatchErr(i)
        ELSE MatchSome(TRUE, Some(args[i].sv), i)

parse_string_var(args, ident) ==
    LET i == FirstIndex({j \in DOMAIN args : AssignTo(args[j], ident)})
    IN  IF i = 0 THEN MatchNone
        ELSE IF args[i].lit # "str" THEN MatchErr(i)
        ELSE MatchSome(TRUE, Some(args[i].sv), i)

\* Mutant: `ident = false` is no match.
parse_true_or_string_var(args, ident) ==
    LET i == FirstIndex({j \in DOMAIN args : is_ident(args[j], ident) \/ AssignTo(args[j], ident) \/ args[j].kind = "lit"})
    IN  IF i = 0 THEN MatchNone
        ELSE IF args[i].kind = "path" THEN MatchSome(TRUE, None, i)
        ELSE IF args[i].lit = "bool" THEN (IF args[i].bv THEN MatchSome(TRUE, None, i) ELSE MatchNone)
        ELSE IF args[i].lit = "str" THEN MatchSome(TRUE, Some(args[i].sv), i)
        ELSE MatchErr(i)

parse_bool_or_string_var(args, ident) ==
    LET i == FirstIndex({j \in DOMAIN args : is_ident(args[j], ident) \/ AssignTo(args[j], ident) \/ args[j].kind = "lit"})
    IN  IF i = 0 THEN MatchNone
        ELSE IF args[i].kind = "path" THEN MatchSome(TRUE, None, i)
        ELSE IF args[i].lit = "bool" THEN MatchSome(args[i].bv, None, i)
        ELSE IF args[i].lit = "str" THEN MatchSome(TRUE, Some(args[i].sv), i)
        ELSE MatchErr(i)

\* The attributes of an item are modelled by their names; the result names
\* the attribute found (or the one the error points at) by its position.
RequestAttrs(attrs) == {i \in DOMAIN attrs : attrs[i] = "request"}
NthRequestAttr(attrs, n) ==
    CHOOSE i \in RequestAttrs(attrs) : Cardinality({j \in RequestAttrs(attrs) : j < i}) = n - 1
get_first_request_attr(attrs) ==
    IF RequestAttrs(attrs) = {} THEN [tag |-> "none", idx |-> 0]
    ELSE [tag |-> "some", idx |-> NthRequestAttr(attrs, 1)]

get_request_attr(attrs) ==
    IF Cardinality(RequestAttrs(attrs)) > 1
    THEN [tag |-> "err", idx |-> NthRequestAttr(attrs, 2)]
    ELSE IF RequestAttrs(attrs) = {} THEN [tag |-> "none", idx |-> 0]
    ELSE [tag |-> "some", idx |-> NthRequestAttr(attrs, 1)]

(***************************************************************************)
(* request.rs / container.rs: one expansion of #[derive(Request)].  A      *)
(* syn::Error is its message and the thing its span covers: the input, an  *)
(* attribute (by position), an argument, or a field (by position).         *)
(***************************************************************************)
NoExpr == ExprPath("")
SpanInput == [what |-> "input", n |-> 0, expr |-> NoExpr]
SpanAttr(n) == [what |-> "attr", n |-> n, expr |-> NoExpr]
SpanExpr(e) == [what |-> "arg", n |-> 0, expr |-> e]
SpanField(n) == [what |-> "field", n |-> n, expr |-> NoExpr]
SynError(msg, span) == [msg |-> msg, span |-> span]

DeriveOk == [tag |-> "ok", err |-> SynError("", SpanInput)]
DeriveErr(e) == [tag |-> "err", err |-> e]
DerivePanic == [tag |-> "panic", err |-> SynError("", SpanInput)]

REQUEST_ATTRIBUTE_ERROR == "expected #[request(METHOD, url, RESPONSE_DATA] or #[request(url, RESPONSE_DATA)]"
ALLOW_METHODS == {"OPTIONS", "GET", "POST", "PUT", "DELETE", "PATCH", "TRACE", "HEAD"}

\* Outcome of one of the three positional parsers: "ok", "err" or "panic".
parse_method(arg) ==
    IF arg.kind # "path" THEN "err"
    ELSE IF ~arg.single THEN "panic"  \* get_ident().unwrap() on None
    ELSE IF arg.id \in ALLOW_METHODS THEN "ok"
    ELSE "err"

parse_address(arg) ==
    IF arg.kind = "lit" /\ arg.lit = "str" THEN "ok" ELSE "err"

parse_response_data_any(arg) == "ok"

parse_response_data(arg) ==
    IF arg.kind = "path" THEN "ok" ELSE "err"

dInput == <<cattrs, cargs, struct>>
fState == <<fidx, fvar, headers, paths, queries>>
notDerive == <<execVars, pathVars, serVars, glueVars>>

\* `return Err(e)` out of derive, by `?` or directly.
Fail(e) ==
    /\ dout' = Some(DeriveErr(e))
    /\ dpc' = "done"

\* The argument args.pop() yields, and the pool it leaves.
Popped(q) == q[Len(q)]
AfterPop(q) == SubSeq(q, 1, Len(q) - 1)

\* container.rs 131-140.
CAttr ==
    /\ dpc = "c_attr"
    /\ LET r == get_request_attr(cattrs)
       IN  IF r.tag = "err"
           THEN Fail(SynError("duplicate attribute request", SpanAttr(r.idx))) /\ UNCHANGED pool
           ELSE IF r.tag = "none"
           THEN Fail(SynError(REQUEST_ATTRIBUTE_ERROR, SpanInput)) /\ UNCHANGED pool
           ELSE pool' = Reverse(cargs) /\ dpc' = "c_first" /\ UNCHANGED dout
    /\ UNCHANGED <<dInput, cvar, emitted, fState>>
    /\ UNCHANGED notDerive

\* container.rs 142-153.
CFirst ==
    /\ dpc = "c_first"
    /\ IF pool = <<>>
       THEN Fail(SynError(REQUEST_ATTRIBUTE_ERROR, SpanAttr(get_request_attr(cattrs).idx)))
            /\ UNCHANGED <<pool, cvar>>
       ELSE LET expr == Popped(pool)
            IN  IF parse_method(expr) = "panic"
                THEN dout' = Some(DerivePanic) /\ dpc' = "done" /\ pool' = AfterPop(pool)
                     /\ UNCHANGED cvar
                ELSE IF parse_method(expr) = "ok"
                THEN cvar' = [cvar EXCEPT !.method = Some(expr.id)]
                     /\ pool' = AfterPop(pool) /\ dpc' = "c_address" /\ UNCHANGED dout
                ELSE IF parse_address(expr) = "ok"
                THEN cvar' = [cvar EXCEPT !.method = Some("POST"), !.address = Some(expr.sv)]
                     /\ pool' = AfterPop(pool) /\ dpc' = "c_address" /\ UNCHANGED dout
                ELSE Fail(SynError(REQUEST_ATTRIBUTE_ERROR, SpanExpr(expr)))
                     /\ pool' = AfterPop(pool) /\ UNCHANGED cvar
    /\ UNCHANGED <<dInput, emitted, fState>>
    /\ UNCHANGED notDerive

\* container.rs 155-164.
CAddress ==
    /\ dpc = "c_address"
    /\ IF cvar.address # None
       THEN dpc' = "c_response" /\ UNCHANGED <<pool, cvar, dout>>
       ELSE IF pool = <<>>
       THEN Fail(SynError(REQUEST_ATTRIBUTE_ERROR, SpanAttr(get_request_attr(cattrs).idx)))
            /\ UNCHANGED <<pool, cvar>>
       ELSE LET expr == Popped(pool)
            IN  IF parse_address(expr) = "ok"
                THEN cvar' = [cvar EXCEPT !.address = Some(expr.sv)]
                     /\ pool' = AfterPop(pool) /\ dpc' = "c_response" /\ UNCHANGED dout
                ELSE Fail(SynError(REQUEST_ATTRIBUTE_ERROR, SpanExpr(expr)))
                     /\ pool' = AfterPop(pool) /\ UNCHANGED cvar
    /\ UNCHANGED <<dInput, emitted, fState>>
    /\ UNCHANGED notDerive

\* container.rs 166-175.
CResponse ==
    /\ dpc = "c_response"
    /\ IF pool = <<>>
       THEN Fail(SynError(REQUEST_ATTRIBUTE_ERROR, SpanAttr(get_request_attr(cattrs).idx)))
            /\ UNCHANGED <<pool, cvar>>
       ELSE LET expr == Popped(pool)
            IN  IF parse_response_data(expr) = "ok"
                THEN cvar' = [cvar EXCEPT !.response = Some(expr)]
                     /\ pool' = AfterPop(pool) /\ dpc' = "c_flatten" /\ UNCHANGED dout
                ELSE Fail(SynError(REQUEST_ATTRIBUTE_ERROR, SpanExpr(expr)))
                     /\ pool' = AfterPop(pool) /\ UNCHANGED cvar
    /\ UNCHANGED <<dInput, emitted, fState>>
    /\ UNCHANGED notDerive

\* container.rs 177-180.
CFlatten ==
    /\ dpc = "c_flatten"
    /\ LET r == parse_bool_var(pool, "flatten")
       IN  IF r.tag = "err"
           THEN Fail(SynError("invalid value", SpanExpr(pool[r.idx]))) /\ UNCHANGED <<pool, cvar>>
           ELSE IF r.tag = "some"
           THEN cvar' = [cvar EXCEPT !.flatten = r.b]
                /\ pool' = Remove(pool, r.idx) /\ dpc' = "c_body" /\ UNCHANGED dout
           ELSE dpc' = "c_body" /\ UNCHANGED <<pool, cvar, dout>>
    /\ UNCHANGED <<dInput, emitted, fState>>
    /\ UNCHANGED notDerive

\* container.rs 182-185.
CBody ==
    /\ dpc = "c_body"
    /\ LET r == parse_bool_var(pool, "body")
       IN  IF r.tag = "err"
           THEN Fail(SynError("invalid value", SpanExpr(pool[r.idx]))) /\ UNCHANGED <<pool, cvar>>
           ELSE IF r.tag = "some"
           THEN cvar' = [cvar EXCEPT !.body = Some(r.b)]
                /\ pool' = Remove(pool, r.idx) /\ dpc' = "c_finish" /\ UNCHANGED dout
           ELSE dpc' = "c_finish" /\ UNCHANGED <<pool, cvar, dout>>
    /\ UNCHANGED <<dInput, emitted, fState>>
    /\ UNCHANGED notDerive

\* container.rs 187-191: an argument left in the pool.
ContainerLeftover(args) == IF args # <<>> THEN Some(args[1]) ELSE None

CFinish ==
    /\ dpc = "c_finish"
    /\ IF ContainerLeftover(pool) # None
       THEN Fail(SynError(REQUEST_ATTRIBUTE_ERROR, SpanExpr(ContainerLeftover(pool)[1])))
       ELSE dpc' = "tokens" /\ UNCHANGED dout
    /\ UNCHANGED <<dInput, pool, cvar, emitted, fState>>
    /\ UNCHANGED notDerive

\* container.rs 53-89: what the emitted method(), address(), Target and
\* body() are; has_body is whether body() returns Some(bytes).
method(v) == v.method[1]
address(v) == v.address[1]
response(v) ==
    [wrapper |-> IF v.flatten THEN "FlattenResponse" ELSE "BodyResponse", data |-> v.response[1]]
body_from_method(v) == method(v) # "GET"

body(v) ==
    IF v.body # None THEN v.body[1] ELSE method(v) # "GET"

\* request.rs 33-37.
Tokens ==
    /\ dpc = "tokens"
    /\ emitted' = Some([method |-> method(cvar), address |-> address(cvar),
                        response |-> response(cvar), has_body |-> body(cvar)])
    /\ dpc' = "f_next"
    /\ UNCHANGED <<dInput, pool, cvar, fState, dout>>
    /\ UNCHANGED notDerive

(***************************************************************************)
(* fields.rs: the field descriptors.  A field of the struct is its         *)
(* attributes (by name) and the arguments of its first `request`           *)
(* attribute; its name is given by its position.                           *)
(***************************************************************************)
FieldNames == <<"page", "limit", "token">>

FieldVariableNewAsQuery(field) ==
    [field |-> field, mode |-> Some("Query"), rename |-> None, with |-> None, serialize_with |-> None]

\* fields.rs 51-55.
FieldVariableNew(field) ==
    [field |-> field, mode |-> None, rename |-> None, with |-> None, serialize_with |-> None]

\* fields.rs 176-186: the next field of the struct, or the end of the loop
\* (fields.rs 227) and of derive (request.rs 39-72).
FNext ==
    /\ dpc = "f_next"
    /\ IF fidx = Len(struct)
       THEN dout' = Some(DeriveOk) /\ dpc' = "done" /\ UNCHANGED <<fidx, fvar, pool>>
       ELSE LET field == struct[fidx + 1]
                r == get_request_attr(field.attrs)
            IN  /\ fidx' = fidx + 1
                /\ IF r.tag = "err"
                   THEN Fail(SynError("duplicate attribute request", SpanAttr(r.idx)))
                        /\ UNCHANGED <<fvar, pool>>
                   ELSE IF r.tag = "none"
                   THEN UNCHANGED <<dpc, dout, fvar, pool>>
                   ELSE /\ fvar' = FieldVariableNew(FieldNames[fidx + 1])
                        /\ pool' = Reverse(field.args)
                        /\ dpc' = "f_role"
                        /\ UNCHANGED dout
    /\ UNCHANGED <<dInput, cvar, emitted, headers, paths, queries>>
    /\ UNCHANGED notDerive

\* fields.rs 188-200: the if / else if chain over the three role matchers;
\* the first matcher that does not return Ok(None) decides.
RoleMatchQueryFirst(args) ==
    LET h == parse_bool_or_string_var(args, "header")
        p == parse_bool_or_string_var(args, "path")
        q == parse_bool_or_string_var(args, "query")
    IN  IF q.tag # "none" THEN [mode |-> Some("Query"), m |-> q]
        ELSE IF p.tag # "none" THEN [mode |-> Some("Path"), m |-> p]
        ELSE IF h.tag # "none" THEN [mode |-> Some("Header"), m |-> h]
        ELSE [mode |-> None, m |-> MatchNone]

RoleMatch(args) ==
    LET h == parse_bool_or_string_var(args, "header")
        p == parse_bool_or_string_var(args, "path")
        q == parse_bool_or_string_var(args, "query")
    IN  IF h.tag # "none" THEN [mode |-> Some("Header"), m |-> h]
        ELSE IF p.tag # "none" THEN [mode |-> Some("Path"), m |-> p]
        ELSE IF q.tag # "none" THEN [mode |-> Some("Query"), m |-> q]
        ELSE [mode |-> None, m |-> MatchNone]

FRole ==
    /\ dpc = "f_role"
    /\ LET r == RoleMatch(pool)
       IN  IF r.m.tag = "err"
           THEN Fail(SynError("invalid value", SpanExpr(pool[r.m.idx]))) /\ UNCHANGED <<pool, fvar>>
           ELSE IF r.m.tag = "some"
           THEN fvar' = [fvar EXCEPT !.mode = r.mode, !.rename = r.m.s]
                /\ pool' = Remove(pool, r.m.idx) /\ dpc' = "f_rename" /\ UNCHANGED dout
           ELSE dpc' = "f_rename" /\ UNCHANGED <<pool, fvar, dout>>
    /\ UNCHANGED <<dInput, cvar, emitted, fidx, headers, paths, queries>>
    /\ UNCHANGED notDerive

\* fields.rs 202-214: one `if let Some(..) = parse_string_var(&args, name)?`.
FStringVar(at, name, to) ==
    /\ dpc = at
    /\ LET r == parse_string_var(pool, name)
       IN  IF r.tag = "err"
           THEN Fail(SynError("invalid value", SpanExpr(pool[r.idx]))) /\ UNCHANGED <<pool, fvar>>
           ELSE IF r.tag = "some"
           THEN fvar' = [fvar EXCEPT ![name] = r.s]
                /\ pool' = Remove(pool, r.idx) /\ dpc' = to /\ UNCHANGED dout
           ELSE dpc' = to /\ UNCHANGED <<pool, fvar, dout>>
    /\ UNCHANGED <<dInput, cvar, emitted, fidx, headers, paths, queries>>
    /\ UNCHANGED notDerive

\* Mutant: an explicit rename does not replace the inline one.
FRenameKeepsInline ==
    /\ dpc = "f_rename"
    /\ LET r == parse_string_var(pool, "rename")
       IN  IF r.tag = "err"
           THEN Fail(SynError("invalid value", SpanExpr(pool[r.idx]))) /\ UNCHANGED <<pool, fvar>>
           ELSE IF r.tag = "some"
           THEN fvar' = [fvar EXCEPT !.rename = IF fvar.rename = None THEN r.s ELSE fvar.rename]
                /\ pool' = Remove(pool, r.idx) /\ dpc' = "f_serialize_with" /\ UNCHANGED dout
           ELSE dpc' = "f_serialize_with" /\ UNCHANGED <<pool, fvar, dout>>
    /\ UNCHANGED <<dInput, cvar, emitted, fidx, headers, paths, queries>>
    /\ UNCHANGED notDerive

FRename == FStringVar("f_rename", "rename", "f_serialize_with")
FSerializeWith == FStringVar("f_serialize_with", "serialize_with", "f_with")
FWith == FStringVar("f_with", "with", "f_finish")

\* fields.rs 216-218: an argument left in the pool.
FieldLeftoverIgnored(args) == None

FieldLeftover(args) == IF args # <<>> THEN Some(args[1]) ELSE None

PushFront(list, var) == <<var>> \o list

\* fields.rs 221-223: Vec::push.
Push(list, var) == Append(list, var)

\* fields.rs 216-225.
FFinish ==
    /\ dpc = "f_finish"
    /\ IF FieldLeftover(pool) # None
       THEN Fail(SynError("invalid attribute", SpanExpr(FieldLeftover(pool)[1])))
            /\ UNCHANGED <<headers, paths, queries>>
       ELSE IF fvar.mode = None
       THEN Fail(SynError("missing attribute", SpanField(fidx)))
            /\ UNCHANGED <<headers, paths, queries>>
       ELSE /\ headers' = IF fvar.mode = Some("Header") THEN Push(headers, fvar) ELSE headers
            /\ paths' = IF fvar.mode = Some("Path") THEN Push(paths, fvar) ELSE paths
            /\ queries' = IF fvar.mode = Some("Query") THEN Push(queries, fvar) ELSE queries
            /\ dpc' = "f_next"
            /\ UNCHANGED dout
    /\ UNCHANGED <<dInput, pool, cvar, emitted, fidx, fvar>>
    /\ UNCHANGED notDerive

\* The annotations explored.
MaxContainerArgs == 4
MaxFieldArgs == 3

ContainerExprs ==
    {ExprPath("GET"), ExprPath("POST"), ExprPath("AccessToken"), ExprSegments("lark::Token"),
     ExprStr("url"), ExprInt("5"),
     ExprPath("flatten"), AssignBool("flatten", FALSE), AssignInt("flatten", "5"),
     ExprPath("body"), AssignBool("body", FALSE)}

FieldExprs ==
    {ExprPath("header"), ExprPath("path"), ExprPath("query"),
     AssignStr("header", "H"), AssignBool("query", FALSE), ExprStr("lit"), ExprInt("5"),
     AssignBool("header", FALSE), AssignBool("path", FALSE),
     AssignStr("rename", "R"), AssignStr("serialize_with", "S"), AssignStr("with", "W"),
     AssignInt("rename", "5"), ExprPath("unknown")}

AttrLists ==
    {<<>>, <<"serde">>, <<"request">>, <<"serde", "request">>,
     <<"request", "request">>, <<"request", "serde", "request">>}

\* An item with attributes `attrs`: the arguments of its `request` attribute
\* are explored when it has exactly one.
Annotations(exprs, n, plain) ==
    {[attrs |-> a, args |-> g] : a \in {<<"request">>, <<"serde", "request">>}, g \in SeqsUpTo(exprs, n)}
    \cup {[attrs |-> a, args |-> plain] : a \in AttrLists}

PlainContainer == <<ExprStr("url"), ExprPath("AccessToken")>>

\* Structs of several fields take their fields from these.
StructFields ==
    {[attrs |-> <<"serde">>, args |-> <<>>],
     [attrs |-> <<"request">>, args |-> <<ExprPath("header")>>],
     [attrs |-> <<"request">>, args |-> <<ExprPath("path")>>],
     [attrs |-> <<"request">>, args |-> <<ExprPath("query")>>],
     [attrs |-> <<"request">>, args |-> <<AssignStr("query", "H")>>],
     [attrs |-> <<"request">>, args |-> <<AssignStr("rename", "R")>>]}

InitDerive ==
    /\ ExecIdle
    /\ shape = "body"
    /\ PathIdle
    /\ SerIdle
    /\ GlueIdle
    /\ dpc = "c_attr"
    /\ \E c \in Annotations(ContainerExprs, MaxContainerArgs, PlainContainer) :
          /\ cattrs = c.attrs
          /\ cargs = c.args
          /\ IF c.args = PlainContainer /\ c.attrs = <<"request">>
             THEN struct \in {<<f>> : f \in Annotations(FieldExprs, MaxFieldArgs, <<ExprPath("query")>>)}
                             \cup SeqsUpTo(StructFields, Len(FieldNames))
             ELSE struct = <<>>
    /\ pool = <<>>
    /\ cvar = RequestVariableDefault
    /\ emitted = None
    /\ fidx = 0
    /\ fvar = NoFieldVariable
    /\ headers = <<>>
    /\ paths = <<>>
    /\ queries = <<>>
    /\ dout = None

NextDerive ==
    \/ CAttr \/ CFirst \/ CAddress \/ CResponse \/ CFlatten \/ CBody \/ CFinish
    \/ Tokens
    \/ FNext \/ FRole \/ FRename \/ FSerializeWith \/ FWith \/ FFinish

SpecDerive == InitDerive /\ [][NextDerive]_vars

(***************************************************************************)
(* fields.rs 57-147: the code emitted for path_params, query_params and    *)
(* headers, called on a value of the type.  `gfields` pairs each           *)
(* descriptor of the list with the value of its field.                     *)
(***************************************************************************)
MaxGlueFields == 2

\* The function a serialize_with names is the user's: this one wraps the
\* text of a present value and returns None for a None option.
CustomSerialize(name, v) ==
    IF v.kind = "none" THEN None ELSE Some(name \o "(" \o v.text \o ")")

WireKeyField(var) == var.field

\* fields.rs 60-63.
WireKey(var) == IF var.rename # None THEN var.rename[1] ELSE var.field

\* fields.rs 67-77: the outcome of evaluating the value expression.
FieldSerialize(var, v) ==
    IF var.serialize_with # None
    THEN Returned(CustomSerialize(var.serialize_with[1], v))
    ELSE serialize(v)

WithPrefixAlways(with, val) == Some(with \o (IF val = None THEN "" ELSE val[1]))

\* fields.rs 80-90: match value { Some(val) => Some(format!(with, val)), None => None }.
WithPrefix(with, val) == IF val = None THEN None ELSE Some(with \o val[1])

\* fields.rs 57-96: the pair (String::from(name), value) of one field.
FieldPair(f) ==
    LET r == FieldSerialize(f.var, f.value)
    IN  [panic |-> r.panic,
         k |-> WireKey(f.var),
         v |-> IF f.var.with # None THEN WithPrefix(f.var.with[1], r.out) ELSE r.out]

\* fields.rs 136-142: items.push((key, val)) for the pairs with Some(val).
RECURSIVE PushPairs(_, _, _)
PushPairs(fs, i, items) ==
    IF i > Len(fs) THEN items
    ELSE LET e == FieldPair(fs[i])
         IN  PushPairs(fs, i + 1,
                       IF e.v # None THEN Append(items, [k |-> e.k, v |-> e.v[1]]) ELSE items)

\* HashMap::insert.
Insert(map, k, v) == [x \in DOMAIN map \cup {k} |-> IF x = k THEN v ELSE map[x]]

\* fields.rs 124-130: headers.insert(key, val) for the pairs with Some(val).
RECURSIVE InsertPairs(_, _, _)
InsertPairs(fs, i, map) ==
    IF i > Len(fs) THEN map
    ELSE LET e == FieldPair(fs[i])
         IN  InsertPairs(fs, i + 1, IF e.v # None THEN Insert(map, e.k, e.v[1]) ELSE map)

\* What a call returns: None, Some(map) or Some(items).
NoParams == [some |-> FALSE, map |-> <<>>, items |-> <<>>]
SomeMap(m) == [some |-> TRUE, map |-> m, items |-> <<>>]
SomeItems(q) == [some |-> TRUE, map |-> <<>>, items |-> q]
GlueReturned(o) == [panic |-> FALSE, out |-> o]
GluePanicked == [panic |-> TRUE, out |-> NoParams]

\* fields.rs 114-147.
Accessor(fs) ==
    IF fs = <<>> THEN GlueReturned(NoParams)
    ELSE IF \E i \in DOMAIN fs : FieldPair(fs[i]).panic THEN GluePanicked
    ELSE IF fs[1].var.mode = Some("Path") THEN GlueReturned(SomeMap(InsertPairs(fs, 1, <<>>)))
    ELSE GlueReturned(SomeItems(PushPairs(fs, 1, <<>>)))

GlueValues ==
    {Scalar("1"), Scalar("10"), Scalar("tests"), Scalar(""), OptNone,
     VecOf(<<>>), VecOf(<<OptNone>>)}

\* The descriptors fields::parse builds for the field at position i.
GlueVars(i, mode) ==
    {[field |-> FieldNames[i], mode |-> Some(mode), rename |-> r, with |-> w, serialize_with |-> c] :
        r \in {None, Some("Authorization")}, w \in {None, Some("Bearer ")}, c \in {None, Some("S")}}

\* The lists of n descriptors of one mode, each with the value of its field.
RECURSIVE GlueLists(_, _)
GlueLists(n, mode) ==
    IF n = 0 THEN {<<>>}
    ELSE {Append(q, e) : q \in GlueLists(n - 1, mode),
                         e \in [var : GlueVars(n, mode), value : GlueValues]}

InitGlue ==
    /\ ExecIdle
    /\ shape = "body"
    /\ PathIdle
    /\ SerIdle
    /\ DeriveIdle
    /\ \E n \in 0..MaxGlueFields, mode \in {"Header", "Path", "Query"} :
          /\ n <= Len(FieldNames)
          /\ gfields \in GlueLists(n, mode)
    /\ gout = None

\* One call of the emitted path_params / query_params / headers.
CallAccessor ==
    /\ gout = None
    /\ gout' = Some(Accessor(gfields))
    /\ UNCHANGED gfields
    /\ UNCHANGED <<execVars, pathVars, serVars, deriveVars>>

NextGlue == CallAccessor

SpecGlue == InitGlue /\ [][NextGlue]_vars

(***************************************************************************)
(* Properties of the nested envelope (BodyResponse).                       *)
(***************************************************************************)
WithKey(fs, k) == SelectSeq(fs, LAMBDA f : f.k = k)
Last(q) == q[Len(q)]
\* The decoder has run to its end (or to its failure) on a JSON object.
DecodeOver ==
    /\ wire # None
    /\ wire[1].wellformed
    /\ pc \in {"decoded", "done"}
TokenPayload == [tenant_access_token |-> "xxx", expire |-> 7200]

\* C1: a nested envelope whose `code` fields are all non-zero numbers (and
\* whose `msg` is a string, with no foreign key) decodes whatever the
\* `data` values are: the envelope is a failure carrying the wire's code and
\* msg, and data() is None.
C1_ErrorEnvelopeIgnoresData ==
    (/\ shape = "body"
     /\ DecodeOver
     /\ LET fs == wire[1].fields
        IN  /\ \A i \in 1..Len(fs) : fs[i].k \in {"code", "msg", "data"}
            /\ WithKey(fs, "code") # <<>>
            /\ \A i \in 1..Len(fs) : fs[i].k = "code" => fs[i].v.t = "num" /\ fs[i].v.n # 0
            /\ WithKey(fs, "msg") # <<>>
            /\ \A i \in 1..Len(fs) : fs[i].k = "msg" => fs[i].v.t = "str")
    => /\ resp # None
       /\ resp[1].code # 0
       /\ resp[1].code = Last(WithKey(wire[1].fields, "code")).v.n
       /\ resp[1].message = Last(WithKey(wire[1].fields, "msg")).v.s
       /\ resp[1].data = None
       /\ result # None => ~result[1].ok

C1_Witness ==
    /\ shape = "body"
    /\ pc = "decoded"
    /\ wire[1].fields = <<Field("code", JNum(100000)), Field("msg", JStr("invalid")),
                          Field("data", EmptyObj)>>
    /\ resp = Some([code |-> 100000, message |-> "invalid", data |-> None])

\* C2: at the `data` field the value is decoded as the payload type exactly
\* when code is Some(0) (a payload object is stored, null is stored as
\* absent, every other shape fails the decoding); otherwise the value is
\* skipped whatever it is.  So code 0, msg, data (in that order) yields the
\* payload, and a wire whose data fields all come before any code yields
\* data() = None.
C2_DataStep ==
    (pc = "decoding" /\ shape = "body" /\ More /\ CurField.k = "data")
    => IF code = Some(0)
       THEN CASE CurField.v = TokenObj -> data' = Some(Some(TokenPayload)) /\ pc' = "decoding"
              [] CurField.v = JNull -> data' = Some(None) /\ pc' = "decoding"
              [] OTHER -> pc' = "done" /\ ~result'[1].ok /\ data' = data
       ELSE data' = data /\ pc' = "decoding" /\ pos' = pos + 1 /\ result' = result

C2_Consequence ==
    (shape = "body" /\ DecodeOver)
    => LET fs == wire[1].fields
       IN  /\ (\E m \in {"ok", "invalid"} :
                 fs = <<Field("code", JNum(0)), Field("msg", JStr(m)), Field("data", TokenObj)>>)
               => /\ resp # None
                  /\ is_success(resp[1])
                  /\ resp[1].message = fs[2].v.s
                  /\ resp[1].data = Some(TokenPayload)
           /\ (/\ resp # None
               /\ \A i, j \in 1..Len(fs) : fs[i].k = "code" /\ fs[j].k = "data" => j < i)
               => resp[1].data = None

C2_DataTypedIffCodeZero == [][C2_DataStep]_vars /\ []C2_Consequence

C2_Witness ==
    /\ shape = "body"
    /\ pc = "decoded"
    /\ wire[1].fields = <<Field("data", TokenObj), Field("code", JNum(0)), Field("msg", JStr("ok"))>>
    /\ resp[1].data = None

\* C3: every accepted nested envelope has data() = Some only when its final
\* code is 0.
C3_DataOnlyOnSuccess ==
    (shape = "body" /\ resp # None)
    => (resp[1].data # None => is_success(resp[1]))

\* C5: decoding a nested envelope fails when no `code` or no `msg` field was
\* seen, and succeeds with data() = None when only `data` is absent, for any
\* code value.
C5_TerminalRule ==
    (shape = "body" /\ DecodeOver)
    => LET fs == wire[1].fields
       IN  /\ (WithKey(fs, "code") = <<>> \/ WithKey(fs, "msg") = <<>>)
               => /\ resp = None
                  /\ pc = "done"
                  /\ ~result[1].ok
           /\ (/\ \A i \in 1..Len(fs) : fs[i].k \in {"code", "msg"}
               /\ WithKey(fs, "code") # <<>>
               /\ WithKey(fs, "msg") # <<>>
               /\ \A i \in 1..Len(fs) : fs[i].v.t = (IF fs[i].k = "code" THEN "num" ELSE "str"))
               => /\ resp # None
                  /\ resp[1].data = None
                  /\ resp[1].code = Last(WithKey(fs, "code")).v.n
                  /\ resp[1].message = Last(WithKey(fs, "msg")).v.s

C5_Witness ==
    /\ shape = "body"
    /\ pc = "done"
    /\ wire # None
    /\ wire[1].fields = <<Field("code", JNum(0)), Field("data", TokenObj)>>
    /\ resp = None

(***************************************************************************)
(* Properties of the flattened envelope (FlattenResponse).                 *)
(***************************************************************************)
\* C4: a flattened envelope whose code is not 0 has data() = None whatever
\* payload fields the wire object holds, and an error response without the
\* payload fields decodes, with data() = None.
C4_FlattenNoDataOnError ==
    /\ (shape = "flatten" /\ resp # None /\ resp[1].code # 0) => resp[1].data = None
    /\ (/\ shape = "flatten"
        /\ DecodeOver
        /\ \E m \in {"ok"} :
             wire[1].fields = <<Field("code", JNum(100000)), Field("msg", JStr(m)),
                                Field("data", EmptyObj)>>)
       => resp # None /\ resp[1].data = None

(***************************************************************************)
(* Properties of Client::execute.                                          *)
(***************************************************************************)
\* C6: execute returns Ok(payload) only for a decoded envelope with code 0
\* and a present payload; a non-zero code gives the error (code, msg) of the
\* envelope; code 0 without payload gives (502, "response data is null").
C6_Resolution ==
    (pc = "done" /\ result # None)
    => /\ result[1].ok
           => /\ resp # None
              /\ resp[1].code = 0
              /\ resp[1].data # None
              /\ result[1].payload = resp[1].data
       /\ (resp # None /\ resp[1].code # 0)
           => result[1] = [ok |-> FALSE, code |-> resp[1].code,
                           message |-> resp[1].message, payload |-> None]
       /\ (resp # None /\ resp[1].code = 0 /\ resp[1].data = None)
           => result[1] = [ok |-> FALSE, code |-> 502,
                           message |-> "response data is null", payload |-> None]

C6_Witness ==
    /\ pc = "done"
    /\ resp # None
    /\ resp[1].code = 0
    /\ resp[1].data = None
    /\ result[1].code = 502

\* C7: the transport is invoked at most once, only after the address parsed
\* as a URL; a URL that does not parse ends execute with code 502 and no
\* transport call; decoding happens only after the transport returned bytes.
C7_TransportOnceAfterUrl ==
    /\ sends <= 1
    /\ sends >= 1 => url = "ok"
    /\ url = "err"
        => /\ pc = "done"
           /\ result # None /\ ~result[1].ok /\ result[1].code = 502
           /\ sends = 0
           /\ wire = None
    /\ (pc \in {"decoding", "decoded"} \/ pos > 0 \/ resp # None)
        => sends = 1 /\ wire # None

C7_Witness ==
    /\ url = "err"
    /\ pc = "done"
    /\ sends = 0

\* C9: a connect, timeout or unclassified transport failure gives code 500,
\* a status-class failure gives the HTTP status (500 when none is attached),
\* a codec failure gives 500, and the error is shown as "[<code>]: <message>".
Shown(c, m) ==
    "[" \o (CASE c = 500 -> "500" [] c = 502 -> "502" [] c = 404 -> "404"
              [] c = 503 -> "503" [] c = 100000 -> "100000" [] OTHER -> "?")
        \o "]: " \o m

C9_ErrorCodes ==
    (pc = "done" /\ result # None)
    => LET r == result[1]
       IN  /\ terr # None
               => LET e == terr[1]
                  IN  /\ ~r.ok
                      /\ (e.is_connect \/ e.is_timeout \/ ~e.is_status) => r.code = 500
                      /\ (e.is_status /\ ~e.is_connect /\ ~e.is_timeout)
                          => r.code = (IF e.status = None THEN 500 ELSE e.status[1])
           /\ (terr = None /\ wire # None /\ resp = None) => (~r.ok /\ r.code = 500)
           /\ ~r.ok => Display(r) = Shown(r.code, r.message)

C9_Witness ==
    /\ pc = "done"
    /\ terr = Some(ReqwestError(FALSE, FALSE, TRUE, Some(404)))
    /\ result[1].code = 404
    /\ Display(result[1]) = "[404]: status error: E"

(***************************************************************************)
(* Properties of RequestSerialize.                                         *)
(***************************************************************************)
\* C8: no value of a supported field type makes serialization panic.
C8_NoPanic ==
    serialized # None => ~serialized[1].panic

(***************************************************************************)
(* Properties of replace_path_params.                                      *)
(***************************************************************************)
\* A token starts at i: a colon followed by a word character.
TokenAt(p, i) == p[i] = ":" /\ i < Len(p) /\ IsWord(p[i + 1])
\* The end of the longest run of word characters after the colon at i.
TokenEnd(p, i) ==
    CHOOSE e \in (i + 1)..Len(p) :
        /\ \A k \in (i + 1)..e : IsWord(p[k])
        /\ e = Len(p) \/ ~IsWord(p[e + 1])
\* Index i lies inside the identifier of a token.
InToken(p, i) ==
    \E j \in 1..(i - 1) : TokenAt(p, j) /\ i <= TokenEnd(p, j)
\* What index i of the address contributes to the result.
Piece(p, ps, i) ==
    IF InToken(p, i) THEN <<>>
    ELSE IF TokenAt(p, i)
    THEN LET name == SubSeq(p, i + 1, TokenEnd(p, i))
         IN  IF name \in DOMAIN ps THEN ps[name] ELSE SubSeq(p, i, TokenEnd(p, i))
    ELSE <<p[i]>>
RECURSIVE Pieces(_, _, _)
Pieces(p, ps, n) ==
    IF n = 0 THEN <<>> ELSE Pieces(p, ps, n - 1) \o Piece(p, ps, n)

\* C10: every `:identifier` token (identifier = longest run of word
\* characters) whose identifier is a key is replaced by the mapped value,
\* every other token and all other text stays verbatim; an address without
\* a token, or none of whose identifiers is a key, is returned unchanged.
C10_ReplacePathParams ==
    replaced # None
    => /\ replaced[1] = Pieces(path, params, Len(path))
       /\ (\A i \in 1..Len(path) :
              TokenAt(path, i) => SubSeq(path, i + 1, TokenEnd(path, i)) \notin DOMAIN params)
           => replaced[1] = path
       /\ (path = <<"/", ":", "i", "/", ":", "i", "2">> /\ DOMAIN params = {<<"i">>})
           => replaced[1] = <<"/", "1", "/", ":", "i", "2">>

C10_Witness ==
    /\ path = <<"/", ":", "i", "/", ":", "i", "2">>
    /\ DOMAIN params = {<<"i">>}
    /\ replaced = Some(<<"/", "1", "/", ":", "i", "2">>)

(***************************************************************************)
(* Properties of the container descriptor (container.rs).                  *)
(***************************************************************************)
\* container::parse returned Ok: derive went on to build the tokens.
ContainerParsed == dpc = "tokens" \/ emitted # None
IsMethodKeyword(e) == e.kind = "path" /\ e.single /\ e.id \in ALLOW_METHODS
IsStrLit(e) == e.kind = "lit" /\ e.lit = "str"
\* Number of positional arguments: METHOD, "url", RESPONSE or "url", RESPONSE.
Positionals(args) == IF args # <<>> /\ IsMethodKeyword(args[1]) THEN 3 ELSE 2
Rest(args) == SubSeq(args, Positionals(args) + 1, Len(args))
PositionalsShaped(args) ==
    /\ Len(args) >= Positionals(args)
    /\ IsStrLit(args[Positionals(args) - 1])
    /\ args[Positionals(args)].kind = "path"
GivesFlag(args, name) ==
    \E i \in DOMAIN args : is_ident(args[i], name) \/ args[i] = AssignBool(name, TRUE)

\* C11: the container descriptor is built only from a well-shaped positional
\* prefix (method keyword, url literal, response path; or url literal,
\* response path with the method defaulting to POST), and then holds exactly
\* that method, address and response type, with flatten false unless given.
C11_Positionals ==
    ContainerParsed =>
        /\ PositionalsShaped(cargs)
        /\ cvar.method = Some(IF IsMethodKeyword(cargs[1]) THEN cargs[1].id ELSE "POST")
        /\ cvar.address = Some(cargs[Positionals(cargs) - 1].sv)
        /\ cvar.response = Some(cargs[Positionals(cargs)])
        /\ (cvar.flatten => GivesFlag(Rest(cargs), "flatten"))

C11_Witness ==
    /\ ContainerParsed
    /\ cargs = <<ExprPath("GET"), ExprStr("url"), ExprSegments("lark::Token"), ExprPath("body")>>
    /\ cvar.method = Some("GET")
    /\ ~cvar.flatten

\* The value an argument `name` or `name = bool` gives its flag.
FlagValue(e) == IF e.kind = "path" THEN TRUE ELSE e.bv
NamedArgs(args, name) ==
    {i \in DOMAIN args : is_ident(args[i], name) \/ AssignTo(args[i], name)}

\* C12: the emitted body() returns a body exactly when the resolved flag is
\* true: the explicit `body` argument when given, else method # GET; so
\* request(GET, url, T) has no body and request(url, T) is a POST with one.
C12_Body ==
    emitted # None =>
        LET given == NamedArgs(Rest(cargs), "body")
            e == emitted[1]
        IN  /\ given = {} => (e.has_body <=> e.method # "GET")
            /\ \A i \in given : e.has_body <=> FlagValue(Rest(cargs)[i])
            /\ cargs = <<ExprPath("GET"), ExprStr("url"), ExprPath("AccessToken")>> => ~e.has_body
            /\ cargs = <<ExprStr("url"), ExprPath("AccessToken")>> => e.method = "POST" /\ e.has_body

\* An explicit `body` turns the body of a GET on.
C12_Witness ==
    /\ emitted # None
    /\ emitted[1].method = "GET"
    /\ emitted[1].has_body

(***************************************************************************)
(* Properties of both builders.                                            *)
(***************************************************************************)
\* The fields whose iteration of the loop of fields::parse has ended without
\* an error.
FieldsPassed ==
    IF dpc = "f_next" \/ (dpc = "done" /\ dout = Some(DeriveOk)) THEN 1..fidx ELSE 1..(fidx - 1)
Annotated(f) == Cardinality(RequestAttrs(f.attrs)) = 1
RoleNames == {"header", "path", "query"}
\* The name an argument is looked up by; a bare literal has none.
ArgName(e) == IF e.kind = "lit" THEN "" ELSE e.id
NoNameTwice(args) ==
    \A i, j \in DOMAIN args : i # j => ArgName(args[i]) # ArgName(args[j])
ContainerConsumable(e) ==
    e.kind \in {"path", "assign"} /\ e.single /\ e.id \in {"flatten", "body"}
FieldConsumable(e) ==
    \/ e.kind = "lit"
    \/ e.kind \in {"path", "assign"} /\ e.single /\ e.id \in RoleNames
    \/ e.kind = "assign" /\ e.id \in {"rename", "serialize_with", "with"}

\* C13: a builder returns a descriptor only with an empty pool: every
\* declared argument was consumed, so none has an unknown name and no name
\* occurs twice.
C13_EmptyPool ==
    /\ ContainerParsed =>
          /\ \A i \in DOMAIN Rest(cargs) : ContainerConsumable(Rest(cargs)[i])
          /\ NoNameTwice(Rest(cargs))
    /\ dpc \in {"tokens", "f_next"} => pool = <<>>
    /\ dout = Some(DeriveOk) => pool = <<>>
    /\ \A k \in FieldsPassed :
          Annotated(struct[k]) =>
              /\ \A i \in DOMAIN struct[k].args : FieldConsumable(struct[k].args[i])
              /\ NoNameTwice(struct[k].args)

\* A field annotation naming `with` twice: the second is left in the pool.
C13_Witness ==
    /\ dpc = "done"
    /\ struct = <<[attrs |-> <<"request">>,
                   args |-> <<ExprPath("query"), AssignStr("with", "W"), AssignStr("with", "W")>>]>>
    /\ pool = <<AssignStr("with", "W")>>
    /\ dout = Some(DeriveErr(SynError("invalid attribute", SpanExpr(AssignStr("with", "W")))))

\* The position of the second `request` among the attributes of an item.
SecondRequest(attrs) ==
    CHOOSE i \in DOMAIN attrs :
        /\ attrs[i] = "request"
        /\ Cardinality({j \in 1..(i - 1) : attrs[j] = "request"}) = 1
DuplicateError(attrs) ==
    DeriveErr(SynError("duplicate attribute request", SpanAttr(SecondRequest(attrs))))
Listed == {headers[i].field : i \in DOMAIN headers}
              \cup {paths[i].field : i \in DOMAIN paths}
              \cup {queries[i].field : i \in DOMAIN queries}

\* C14: an item carries at most one `request` attribute.  The type must
\* carry exactly one: with none the expansion fails, with several it fails
\* with an error at the second.  A field with none is skipped, a field with
\* several fails the expansion the same way.
C14_OneAnnotation ==
    /\ dpc # "c_attr" =>
          /\ RequestAttrs(cattrs) = {} =>
                dout = Some(DeriveErr(SynError(REQUEST_ATTRIBUTE_ERROR, SpanInput)))
          /\ Cardinality(RequestAttrs(cattrs)) > 1 => dout = Some(DuplicateError(cattrs))
    /\ \A k \in 1..fidx :
          /\ Cardinality(RequestAttrs(struct[k].attrs)) > 1 =>
                dout = Some(DuplicateError(struct[k].attrs))
          /\ RequestAttrs(struct[k].attrs) = {} =>
                k \in FieldsPassed /\ FieldNames[k] \notin Listed

\* A type with #[request(..)] #[serde(..)] #[request(..)].
C14_Witness ==
    /\ cattrs = <<"request", "serde", "request">>
    /\ dout = Some(DeriveErr(SynError("duplicate attribute request", SpanAttr(3))))

(***************************************************************************)
(* Properties of the field descriptors (fields.rs).                        *)
(***************************************************************************)
\* The fields whose iteration of the loop has ended, with or without error.
FieldsEnded == IF dpc \in {"f_next", "done"} THEN 1..fidx ELSE 1..(fidx - 1)
\* None of the three role matchers matches the arguments.
NoRoleMatches(args) ==
    \A name \in RoleNames : parse_bool_or_string_var(args, name) = MatchNone
MissingAttribute(k) == DeriveErr(SynError("missing attribute", SpanField(k)))
\* Every argument is one well-formed rename, serialize_with or with.
OnlyStringVars(args) ==
    /\ \A i \in DOMAIN args :
          args[i].kind = "assign" /\ args[i].lit = "str"
          /\ args[i].id \in {"rename", "serialize_with", "with"}
    /\ NoNameTwice(args)

\* C15 as stated: an annotated field that no role matcher matches fails the
\* expansion with "missing attribute" at that field, whatever its other
\* arguments.
C15_MissingWhateverElse ==
    \A k \in FieldsEnded :
        Annotated(struct[k]) /\ NoRoleMatches(struct[k].args) => dout = Some(MissingAttribute(k))

\* C15: an annotated field that no role matcher matches fails the
\* expansion: with "missing attribute" at that field when its other
\* arguments are all consumed, else with the "invalid value" or "invalid
\* attribute" error of one of its arguments.
C15_NoRoleFails ==
    \A k \in FieldsEnded :
        Annotated(struct[k]) /\ NoRoleMatches(struct[k].args) =>
            /\ dout # None
            /\ dout[1].tag = "err"
            /\ IF OnlyStringVars(struct[k].args)
               THEN dout = Some(MissingAttribute(k))
               ELSE /\ dout[1].err.msg \in {"invalid value", "invalid attribute"}
                    /\ \E i \in DOMAIN struct[k].args :
                          dout[1].err.span = SpanExpr(struct[k].args[i])

\* #[request(rename = "R", with = "W")] on the only field.
C15_Witness ==
    /\ struct = <<[attrs |-> <<"request">>,
                   args |-> <<AssignStr("rename", "R"), AssignStr("with", "W")>>]>>
    /\ dout = Some(MissingAttribute(1))

\* The number of entries of the three lists that describe field `name`.
TimesListed(name) ==
    Cardinality({i \in DOMAIN headers : headers[i].field = name})
    + Cardinality({i \in DOMAIN paths : paths[i].field = name})
    + Cardinality({i \in DOMAIN queries : queries[i].field = name})
Matches(args, name) == parse_bool_or_string_var(Reverse(args), name).tag = "some"
\* The role of the first of the header, path, query matchers that matches.
FirstRole(args) ==
    IF Matches(args, "header") THEN Some("Header")
    ELSE IF Matches(args, "path") THEN Some("Path")
    ELSE IF Matches(args, "query") THEN Some("Query")
    ELSE None
RoleNamed(args) == {i \in DOMAIN args : args[i].kind \in {"path", "assign"} /\ args[i].id \in RoleNames}
\* The role has been resolved for the field in hand.
RoleResolved == dpc \in {"f_rename", "f_serialize_with", "f_with", "f_finish"}

\* C16: a field gets at most one role, that of the first of the header, path,
\* query matchers that matches; an annotation naming two role keywords never
\* yields a descriptor, and no field is in two lists.
C16_OneRole ==
    /\ RoleResolved => fvar.mode = FirstRole(struct[fidx].args)
    /\ \A k \in DOMAIN struct : TimesListed(FieldNames[k]) <= 1
    /\ \A k \in FieldsPassed :
          Annotated(struct[k]) => Cardinality(RoleNamed(struct[k].args)) <= 1

\* #[request(path, header)]: the header matcher decides, `path` is left over.
C16_Witness ==
    /\ struct = <<[attrs |-> <<"request">>, args |-> <<ExprPath("path"), ExprPath("header")>>]>>
    /\ fvar.mode = Some("Header")
    /\ dout = Some(DeriveErr(SynError("invalid attribute", SpanExpr(ExprPath("path")))))
    /\ TimesListed("page") = 0

ListOf(role) ==
    IF role = Some("Header") THEN headers ELSE IF role = Some("Path") THEN paths ELSE queries
\* The position in the struct of the field a descriptor was built from.
Declared(var) == CHOOSE k \in DOMAIN FieldNames : FieldNames[k] = var.field
InDeclarationOrder(list) ==
    \A i, j \in DOMAIN list : i < j => Declared(list[i]) < Declared(list[j])

\* C17: when field parsing succeeds, every annotated field is in exactly one
\* of the three lists, the one of its role; fields without the annotation are
\* in none; each list is in declaration order.
C17_Lists ==
    dout = Some(DeriveOk) =>
        /\ \A k \in DOMAIN struct :
              IF Annotated(struct[k])
              THEN /\ TimesListed(FieldNames[k]) = 1
                   /\ \E i \in DOMAIN ListOf(FirstRole(struct[k].args)) :
                         ListOf(FirstRole(struct[k].args))[i].field = FieldNames[k]
              ELSE TimesListed(FieldNames[k]) = 0
        /\ Len(headers) + Len(paths) + Len(queries)
              = Cardinality({k \in DOMAIN struct : Annotated(struct[k])})
        /\ InDeclarationOrder(headers)
        /\ InDeclarationOrder(paths)
        /\ InDeclarationOrder(queries)

\* A query field, a field without the annotation, a second query field.
C17_Witness ==
    /\ dout = Some(DeriveOk)
    /\ Len(struct) = 3
    /\ ~Annotated(struct[2])
    /\ Len(queries) = 2
    /\ queries[1].field = "page"
    /\ queries[2].field = "token"

(***************************************************************************)
(* Properties of the emitted accessors.                                    *)
(***************************************************************************)
AccessorReturned == gout # None /\ ~gout[1].panic
\* The accessor was emitted from a path list: it returns a map.
IsPathList == gfields # <<>> /\ gfields[1].var.mode = Some("Path")
\* The wire name of field i: its rename if given, else its name.
WireName(i) ==
    IF gfields[i].var.rename = None THEN gfields[i].var.field ELSE gfields[i].var.rename[1]
\* The serialization of field i, by its custom serializer if configured.
RawValue(i) ==
    IF gfields[i].var.serialize_with = None THEN serialize(gfields[i].value).out
    ELSE CustomSerialize(gfields[i].var.serialize_with[1], gfields[i].value)
Prefix(i) == IF gfields[i].var.with = None THEN "" ELSE gfields[i].var.with[1]
Present == {i \in DOMAIN gfields : RawValue(i) # None}
\* The n-th smallest member of a set of positions.
NthOf(S, n) == CHOOSE i \in S : Cardinality({x \in S : x < i}) = n - 1

\* C18: an accessor yields, for the fields with a value, the pairs (wire
\* name, prefix + serialization): query_params and headers as a list in
\* declaration order that keeps duplicate wire names, path_params as a map
\* from wire name to value.
C18_Accessors ==
    AccessorReturned =>
        LET out == gout[1].out
        IN  /\ out.some <=> gfields # <<>>
            /\ ~IsPathList =>
                  /\ Len(out.items) = Cardinality(Present)
                  /\ \A j \in DOMAIN out.items :
                        /\ out.items[j].k = WireName(NthOf(Present, j))
                        /\ out.items[j].v = Prefix(NthOf(Present, j)) \o RawValue(NthOf(Present, j))[1]
            /\ IsPathList =>
                  /\ DOMAIN out.map = {WireName(i) : i \in Present}
                  /\ \A k \in DOMAIN out.map :
                        \E i \in Present : WireName(i) = k /\ out.map[k] = Prefix(i) \o RawValue(i)[1]
            /\ (/\ Len(gfields) = 2
                /\ ~IsPathList
                /\ \A i \in 1..2 : gfields[i].var.rename = None /\ gfields[i].var.with = None
                                   /\ gfields[i].var.serialize_with = None
                /\ gfields[1].value = Scalar("1")
                /\ gfields[2].value = Scalar("10"))
               => out.items = <<[k |-> "page", v |-> "1"], [k |-> "limit", v |-> "10"]>>

\* Two header fields, both renamed Authorization, the first "Bearer tests".
C18_Witness ==
    /\ AccessorReturned
    /\ Len(gfields) = 2
    /\ gfields[1].var.mode = Some("Header")
    /\ gfields[1].value = Scalar("tests")
    /\ Len(gout[1].out.items) = 2
    /\ gout[1].out.items[1] = [k |-> "Authorization", v |-> "Bearer tests"]
    /\ gout[1].out.items[2].k = "Authorization"

\* The values an accessor returned, whichever its shape.
ValuesOut ==
    {gout[1].out.items[j].v : j \in DOMAIN gout[1].out.items}
    \cup {gout[1].out.map[k] : k \in DOMAIN gout[1].out.map}
EntriesOut ==
    IF IsPathList THEN Cardinality(DOMAIN gout[1].out.map) ELSE Len(gout[1].out.items)
NonEmpty == {i \in Present : RawValue(i) # Some("")}

MatchStages == {"c_flatten", "c_body", "f_role", "f_rename", "f_serialize_with", "f_with"}
\* What the scan of the step in hand returns, and the name it scans for (for
\* the role, the name of the matcher that matched).
StageMatch ==
    CASE dpc = "c_flatten" -> parse_bool_var(pool, "flatten")
      [] dpc = "c_body" -> parse_bool_var(pool, "body")
      [] dpc = "f_role" -> RoleMatch(pool).m
      [] dpc = "f_rename" -> parse_string_var(pool, "rename")
      [] dpc = "f_serialize_with" -> parse_string_var(pool, "serialize_with")
      [] dpc = "f_with" -> parse_string_var(pool, "with")
      [] OTHER -> MatchNone
StageName ==
    CASE dpc = "c_flatten" -> "flatten"
      [] dpc = "c_body" -> "body"
      [] dpc = "f_role" /\ RoleMatch(pool).mode = Some("Header") -> "header"
      [] dpc = "f_role" /\ RoleMatch(pool).mode = Some("Path") -> "path"
      [] dpc = "f_role" /\ RoleMatch(pool).mode = Some("Query") -> "query"
      [] dpc = "f_rename" -> "rename"
      [] dpc = "f_serialize_with" -> "serialize_with"
      [] dpc = "f_with" -> "with"
      [] OTHER -> ""
\* The declared arguments of the annotation being parsed.
CurrentArgs == IF dpc \in {"c_flatten", "c_body"} THEN cargs ELSE struct[fidx].args
Occurrences(args, name) == Cardinality({i \in DOMAIN args : ArgName(args[i]) = name})
HasBareLiteral(args) == \E i \in DOMAIN args : args[i].kind = "lit"
\* q without its i-th element, the others in their order.
Without(q, i) == [j \in 1..(Len(q) - 1) |-> IF j < i THEN q[j] ELSE q[j + 1]]
\* A successful match removes exactly the matched argument.
ExactRemoval ==
    dpc \in MatchStages =>
        IF StageMatch.tag = "some" THEN pool' = Without(pool, StageMatch.idx) ELSE pool' = pool
\* After the removal no matcher finds the name again.
NoRematch ==
    /\ parse_bool_var(pool', StageName) = MatchNone
    /\ parse_string_var(pool', StageName) = MatchNone
    /\ parse_bool_or_string_var(pool', StageName) = MatchNone
MatchedOnce ==
    dpc \in MatchStages /\ StageMatch.tag = "some" /\ Occurrences(CurrentArgs, StageName) = 1

\* C20 as stated: a match removes exactly the matched argument, and a second
\* scan for a name that occurred once yields None with every matcher.
C20_RescanNone == [][ExactRemoval /\ (MatchedOnce => NoRematch)]_vars

\* C20: a match removes exactly the matched argument, and a second scan for
\* a name that occurred once yields None with every matcher, provided the
\* pool scanned held no bare literal.
C20_ConsumedOnce ==
    [][ExactRemoval /\ (MatchedOnce /\ ~HasBareLiteral(pool) => NoRematch)]_vars

\* #[request(query, rename = "R", with = "W")] after query and rename were
\* matched and removed: `with` alone is left.
C20_Witness ==
    /\ dpc = "f_serialize_with"
    /\ struct = <<[attrs |-> <<"request">>,
                   args |-> <<ExprPath("query"), AssignStr("rename", "R"), AssignStr("with", "W")>>]>>
    /\ fvar.rename = Some("R")
    /\ pool = <<AssignStr("with", "W")>>

\* The names the builders scan for.
ScannedNames == {"flatten", "body", "rename", "serialize_with", "with"} \cup RoleNames
\* Positions of the pool holding bare `name`, and `name = <literal of kind>`.
BareAt(args, name) == {i \in DOMAIN args : args[i].kind = "path" /\ args[i].single /\ args[i].id = name}
AssignAt(args, name, kinds) ==
    {i \in DOMAIN args : args[i].kind = "assign" /\ args[i].id = name /\ args[i].lit \in kinds}
BareLiteralAt(args, kinds) == {i \in DOMAIN args : args[i].kind = "lit" /\ args[i].lit \in kinds}
LitKinds == {"str", "bool", "int", "expr"}
\* A result r agrees with the positions a matcher accepts and those it
\* fails on: a match or an error is at the first of them, None means none.
Conforms(r, accepted, rejected) ==
    /\ r.tag = "some" => r.idx \in accepted
    /\ r.tag = "err" => r.idx \in rejected
    /\ r.tag = "none" => accepted \cup rejected = {}
    /\ r.tag # "none" => \A j \in accepted \cup rejected : r.idx <= j
\* The value a match carries: (flag, Option<String>).
Carries(r, e) ==
    r.tag = "some" =>
        /\ r.b = (IF e.lit = "bool" THEN e.bv ELSE TRUE)
        /\ r.s = (IF e.lit = "str" THEN Some(e.sv) ELSE None)

LiteralConsumed ==
    /\ dpc = "f_rename"
    /\ fvar.mode # None
    /\ Cardinality(BareLiteralAt(pool, LitKinds))
          < Cardinality(BareLiteralAt(struct[fidx].args, LitKinds))

\* C22: the flag-or-string matcher takes a bare string literal as a match
\* only when it is the first argument of the annotation as declared.
C22_LiteralOnlyFirst ==
    LiteralConsumed =>
        /\ struct[fidx].args[1].kind = "lit"
        /\ pool = Reverse(Tail(struct[fidx].args))

\* A builder has failed on arguments left in the pool.
LeftoverFailure ==
    /\ dpc = "done"
    /\ dout # None
    /\ dout[1].tag = "err"
    /\ pool # <<>>
    /\ \/ dout[1].err.msg = "invalid attribute"
       \/ dout[1].err.msg = REQUEST_ATTRIBUTE_ERROR /\ cvar.response # None

\* C23: the error for unconsumed arguments names the leftover argument that
\* comes first in the annotation as declared (the pool is in reverse order).
C23_FirstLeftover ==
    LeftoverFailure => dout[1].err.span = SpanExpr(pool[Len(pool)])

\* C24: the expansion is total: it ends with the glue or with an error
\* value naming an argument, an attribute, a field or the input; it never
\* panics.
C24_Total ==
    dout # None =>
        \/ dout = Some(DeriveOk)
        \/ dout[1].tag = "err" /\ dout[1].err.msg # ""

(***************************************************************************)
(* The outcome of a builder as a function of the set of the optional       *)
(* arguments and of their number, which no permutation changes.            *)
(***************************************************************************)
Range(q) == {q[i] : i \in DOMAIN q}
\* The arguments of a set that name `name`, and the one of them.
Naming(A, name) == {e \in A : e.kind \in {"path", "assign"} /\ e.single /\ e.id = name}
TheOne(A) == CHOOSE e \in A : TRUE
\* Flags: bare name or name = bool, each name at most once, nothing else.
FlagsWellFormed(A, n) ==
    /\ Cardinality(A) = n
    /\ A = Naming(A, "flatten") \cup Naming(A, "body")
    /\ \A name \in {"flatten", "body"} :
          /\ Cardinality(Naming(A, name)) <= 1
          /\ \A e \in Naming(A, name) : e.kind = "path" \/ e.lit = "bool"
FlagGiven(A, name) == IF Naming(A, name) = {} THEN None ELSE Some(FlagValue(TheOne(Naming(A, name))))
\* The arguments of a set that a role matcher reacts to.
RoleArgs(A) == {e \in A : e.kind = "lit"} \cup UNION {Naming(A, name) : name \in RoleNames}
StringArgs(A) == UNION {Naming(A, name) : name \in {"rename", "serialize_with", "with"}}
FieldWellFormed(A, n) ==
    /\ Cardinality(A) = n
    /\ A = RoleArgs(A) \cup StringArgs(A)
    /\ Cardinality(RoleArgs(A)) = 1
    /\ \A e \in RoleArgs(A) : e.kind = "path" \/ e.lit \in {"bool", "str"}
    /\ \A name \in {"rename", "serialize_with", "with"} :
          /\ Cardinality(Naming(A, name)) <= 1
          /\ \A e \in Naming(A, name) : e.kind = "assign" /\ e.lit = "str"
StringGiven(A, name) == IF Naming(A, name) = {} THEN None ELSE Some(TheOne(Naming(A, name)).sv)
RoleOf(e) ==
    IF e.kind = "lit" \/ e.id = "header" THEN "Header" ELSE IF e.id = "path" THEN "Path" ELSE "Query"
DescriptorOf(A, field) ==
    LET role == TheOne(RoleArgs(A))
    IN  [field |-> field,
         mode |-> Some(RoleOf(role)),
         rename |-> IF Naming(A, "rename") # {} THEN StringGiven(A, "rename")
                    ELSE IF role.lit = "str" THEN Some(role.sv) ELSE None,
         with |-> StringGiven(A, "with"),
         serialize_with |-> StringGiven(A, "serialize_with")]

\* C25: the order of the optional arguments is irrelevant: whether a builder
\* succeeds, and the descriptor it then yields, depend only on the set of
\* the arguments after the positionals (container) or of the field's
\* arguments, so every permutation yields the same descriptor or fails too.
C25_OrderIrrelevant ==
    /\ (dpc = "done" \/ ContainerParsed) /\ Cardinality(RequestAttrs(cattrs)) = 1
          /\ PositionalsShaped(cargs) =>
          /\ ContainerParsed <=> FlagsWellFormed(Range(Rest(cargs)), Len(Rest(cargs)))
          /\ ContainerParsed =>
                /\ cvar.flatten = (FlagGiven(Range(Rest(cargs)), "flatten") = Some(TRUE))
                /\ cvar.body = FlagGiven(Range(Rest(cargs)), "body")
          /\ ~ContainerParsed => dout[1].tag = "err"
    /\ \A k \in FieldsEnded :
          Annotated(struct[k]) =>
              LET A == Range(struct[k].args)
              IN  /\ k \in FieldsPassed <=> FieldWellFormed(A, Len(struct[k].args))
                  /\ k \in FieldsPassed =>
                        \E i \in DOMAIN ListOf(Some(RoleOf(TheOne(RoleArgs(A))))) :
                            ListOf(Some(RoleOf(TheOne(RoleArgs(A)))))[i] = DescriptorOf(A, FieldNames[k])
                  /\ k \notin FieldsPassed => dout[1].tag = "err"

\* #[request(with = "W", rename = "R", query)]: the role is declared last.
C25_Witness ==
    /\ dout = Some(DeriveOk)
    /\ struct = <<[attrs |-> <<"request">>,
                   args |-> <<AssignStr("with", "W"), AssignStr("rename", "R"), ExprPath("query")>>]>>
    /\ queries = <<[field |-> "page", mode |-> Some("Query"), rename |-> Some("R"),
                    with |-> Some("W"), serialize_with |-> None]>>

\* Positions of the keys of the wire object that are none of the envelope's.
UnknownKeys == {i \in DOMAIN wire[1].fields : wire[1].fields[i].k \notin {"code", "msg", "data"}}
BodyDecodeEnded == pc = "done" /\ shape = "body" /\ wire # None /\ wire[1].wellformed

BoolRoles(args) ==
    {i \in DOMAIN args : args[i].kind = "assign" /\ args[i].id \in RoleNames /\ args[i].lit = "bool"}
WithBareKeyword(args) ==
    [i \in DOMAIN args |-> IF i \in BoolRoles(args) THEN ExprPath(args[i].id) ELSE args[i]]

\* C27: the boolean a role matcher returns is ignored: a field whose role
\* is given as `header = false`, `path = false` or `query = false` is
\* classified under that role and pushed on that role's list with the very
\* descriptor the bare keyword yields.
C27_FalseRole ==
    \A k \in FieldsEnded :
        LET args == struct[k].args
            role == Some(RoleOf(args[FirstIndex(BoolRoles(args))]))
        IN  /\ Annotated(struct[k])
            /\ BoolRoles(args) # {}
            /\ FieldWellFormed(Range(args), Len(args))
            =>  /\ k \in FieldsPassed
                /\ \E i \in DOMAIN ListOf(role) :
                      /\ ListOf(role)[i].field = FieldNames[k]
                      /\ ListOf(role)[i].mode = role
                      /\ ListOf(role)[i] = DescriptorOf(Range(WithBareKeyword(args)), FieldNames[k])

\* #[request(header = false, with = "W")] ends as a header.
C27_Witness ==
    /\ dout = Some(DeriveOk)
    /\ struct = <<[attrs |-> <<"request">>, args |-> <<AssignBool("header", FALSE), AssignStr("with", "W")>>]>>
    /\ headers = <<[field |-> "page", mode |-> Some("Header"), rename |-> None,
                    with |-> Some("W"), serialize_with |-> None]>>
    /\ paths = <<>> /\ queries = <<>>

\* The role arguments that carry a name inline: role = "name" or "name".
InlineRenames(A) == {e \in RoleArgs(A) : e.lit = "str"}
AllDescriptors == Range(headers) \cup Range(paths) \cup Range(queries)

\* C28: the wire name of a descriptor is the explicit rename = "..." when
\* the annotation has one, also beside an inline role rename; else the
\* inline literal of the role argument when it has one; else the field
\* identifier.
C28_WireName ==
    \A var \in AllDescriptors :
        LET A == Range(struct[Declared(var)].args)
        IN  WireKey(var) =
                IF Naming(A, "rename") # {} THEN TheOne(Naming(A, "rename")).sv
                ELSE IF InlineRenames(A) # {} THEN TheOne(InlineRenames(A)).sv
                ELSE FieldNames[Declared(var)]

\* #[request(header = "H", rename = "R")] has the wire name "R".
C28_Witness ==
    /\ dout = Some(DeriveOk)
    /\ struct = <<[attrs |-> <<"request">>, args |-> <<AssignStr("header", "H"), AssignStr("rename", "R")>>]>>
    /\ Len(headers) = 1
    /\ headers[1].field = "page"
    /\ WireKey(headers[1]) = "R"

====
